---- MODULE Spec2Model ----
(***************************************************************************)
(* honggfuzz input mangling (src/mangle.c): one mangle_mangleContent       *)
(* session over the run's dynamic file.  The file is the sequence of its   *)
(* first dynamicFileSz bytes; C offset off is the sequence index off + 1.  *)
(***************************************************************************)
EXTENDS Integers, Sequences, FiniteSets, TLC

\* ---------------------------------------------------------------- bounds
\* Largest maxFileSz of a context in the narrow configurations.
MaxFileSz == 2
\* Largest mutationsPerRun (of the run and of the global configuration).
MaxMutations == 2
\* maxFileSz of the wide configurations.
WideFileSz == 6
\* maxFileSz and file size of the magic table configurations (room for an
\* 8-byte value).
TableFileSz == 8

VARIABLES
    run,        \* run_t: dynamicFile, dynamicFileSz, mutationsPerRun
    global,     \* run->global: maxFileSz, mutationsPerRun, only_printable, dictq, dictionaryCnt
    pc,         \* position inside mangle_mangleContent
    changesCnt, \* mangle_mangleContent's local changesCnt
    x,          \* mangle_mangleContent's loop counter
    oracle,     \* the RNG oracle: the answers it may give, and whether `last` is recorded
    input,      \* history: the run as mangle_mangleContent received it
    rndUsed,    \* history: some util_rnd* call was made in this session
    resizeCnt,  \* history: number of mangle_Resize calls of this session
    last        \* history: the last operator, the run before it, its RNG draws, its accesses

vars == <<run, global, pc, changesCnt, x, oracle, input, rndUsed, resizeCnt, last>>

Byte == 0..255

Max(a, b) == IF a > b THEN a ELSE b
Min(a, b) == IF a < b THEN a ELSE b

\* uint8_t conversion of an int
ToU8(n) == n % 256

\* C's % on int operands (truncating division)
CMod(a, n) == IF a >= 0 THEN a % n ELSE -((-a) % n)

IsPrintable(b) == b >= 32 /\ b <= 126

AllPrintable(s) == \A i \in 1..Len(s) : IsPrintable(s[i])

\* ------------------------------------------------------- magic value table
\* Variant of the table that also holds the 2-byte big-endian 00 00 (between
\* FF FF of the 2-byte native group and 00 01): the first 30 entries and that
\* one, without the rest.
mangleMagicVals_with0000BE ==
    [i \in 1..31 |->
        IF i <= 26
        THEN [val |-> <<(<<0, 1, 2, 3, 4, 5, 6, 7, 8, 9, 10, 11, 12, 13, 14, 15, 16, 32, 64,
                          126, 127, 128, 129, 192, 254, 255>>)[i], 0, 0, 0, 0, 0, 0, 0>>,
              size |-> 1]
        ELSE [val |-> <<(<<0, 1, 128, 255, 0>>)[i - 26], (<<0, 1, 128, 255, 0>>)[i - 26],
                        0, 0, 0, 0, 0, 0>>,
              size |-> 2]]

mangleMagicVals == <<
    [val |-> <<0, 0, 0, 0, 0, 0, 0, 0>>, size |-> 1],
    [val |-> <<1, 0, 0, 0, 0, 0, 0, 0>>, size |-> 1],
    [val |-> <<2, 0, 0, 0, 0, 0, 0, 0>>, size |-> 1],
    [val |-> <<3, 0, 0, 0, 0, 0, 0, 0>>, size |-> 1],
    [val |-> <<4, 0, 0, 0, 0, 0, 0, 0>>, size |-> 1],
    [val |-> <<5, 0, 0, 0, 0, 0, 0, 0>>, size |-> 1],
    [val |-> <<6, 0, 0, 0, 0, 0, 0, 0>>, size |-> 1],
    [val |-> <<7, 0, 0, 0, 0, 0, 0, 0>>, size |-> 1],
    [val |-> <<8, 0, 0, 0, 0, 0, 0, 0>>, size |-> 1],
    [val |-> <<9, 0, 0, 0, 0, 0, 0, 0>>, size |-> 1],
    [val |-> <<10, 0, 0, 0, 0, 0, 0, 0>>, size |-> 1],
    [val |-> <<11, 0, 0, 0, 0, 0, 0, 0>>, size |-> 1],
    [val |-> <<12, 0, 0, 0, 0, 0, 0, 0>>, size |-> 1],
    [val |-> <<13, 0, 0, 0, 0, 0, 0, 0>>, size |-> 1],
    [val |-> <<14, 0, 0, 0, 0, 0, 0, 0>>, size |-> 1],
    [val |-> <<15, 0, 0, 0, 0, 0, 0, 0>>, size |-> 1],
    [val |-> <<16, 0, 0, 0, 0, 0, 0, 0>>, size |-> 1],
    [val |-> <<32, 0, 0, 0, 0, 0, 0, 0>>, size |-> 1],
    [val |-> <<64, 0, 0, 0, 0, 0, 0, 0>>, size |-> 1],
    [val |-> <<126, 0, 0, 0, 0, 0, 0, 0>>, size |-> 1],
    [val |-> <<127, 0, 0, 0, 0, 0, 0, 0>>, size |-> 1],
    [val |-> <<128, 0, 0, 0, 0, 0, 0, 0>>, size |-> 1],
    [val |-> <<129, 0, 0, 0, 0, 0, 0, 0>>, size |-> 1],
    [val |-> <<192, 0, 0, 0, 0, 0, 0, 0>>, size |-> 1],
    [val |-> <<254, 0, 0, 0, 0, 0, 0, 0>>, size |-> 1],
    [val |-> <<255, 0, 0, 0, 0, 0, 0, 0>>, size |-> 1],
    [val |-> <<0, 0, 0, 0, 0, 0, 0, 0>>, size |-> 2],
    [val |-> <<1, 1, 0, 0, 0, 0, 0, 0>>, size |-> 2],
    [val |-> <<128, 128, 0, 0, 0, 0, 0, 0>>, size |-> 2],
    [val |-> <<255, 255, 0, 0, 0, 0, 0, 0>>, size |-> 2],
    [val |-> <<0, 1, 0, 0, 0, 0, 0, 0>>, size |-> 2],
    [val |-> <<0, 2, 0, 0, 0, 0, 0, 0>>, size |-> 2],
    [val |-> <<0, 3, 0, 0, 0, 0, 0, 0>>, size |-> 2],
    [val |-> <<0, 4, 0, 0, 0, 0, 0, 0>>, size |-> 2],
    [val |-> <<0, 5, 0, 0, 0, 0, 0, 0>>, size |-> 2],
    [val |-> <<0, 6, 0, 0, 0, 0, 0, 0>>, size |-> 2],
    [val |-> <<0, 7, 0, 0, 0, 0, 0, 0>>, size |-> 2],
    [val |-> <<0, 8, 0, 0, 0, 0, 0, 0>>, size |-> 2],
    [val |-> <<0, 9, 0, 0, 0, 0, 0, 0>>, size |-> 2],
    [val |-> <<0, 10, 0, 0, 0, 0, 0, 0>>, size |-> 2],
    [val |-> <<0, 11, 0, 0, 0, 0, 0, 0>>, size |-> 2],
    [val |-> <<0, 12, 0, 0, 0, 0, 0, 0>>, size |-> 2],
    [val |-> <<0, 13, 0, 0, 0, 0, 0, 0>>, size |-> 2],
    [val |-> <<0, 14, 0, 0, 0, 0, 0, 0>>, size |-> 2],
    [val |-> <<0, 15, 0, 0, 0, 0, 0, 0>>, size |-> 2],
    [val |-> <<0, 16, 0, 0, 0, 0, 0, 0>>, size |-> 2],
    [val |-> <<0, 32, 0, 0, 0, 0, 0, 0>>, size |-> 2],
    [val |-> <<0, 64, 0, 0, 0, 0, 0, 0>>, size |-> 2],
    [val |-> <<0, 126, 0, 0, 0, 0, 0, 0>>, size |-> 2],
    [val |-> <<0, 127, 0, 0, 0, 0, 0, 0>>, size |-> 2],
    [val |-> <<0, 128, 0, 0, 0, 0, 0, 0>>, size |-> 2],
    [val |-> <<0, 129, 0, 0, 0, 0, 0, 0>>, size |-> 2],
    [val |-> <<0, 192, 0, 0, 0, 0, 0, 0>>, size |-> 2],
    [val |-> <<0, 254, 0, 0, 0, 0, 0, 0>>, size |-> 2],
    [val |-> <<0, 255, 0, 0, 0, 0, 0, 0>>, size |-> 2],
    [val |-> <<126, 255, 0, 0, 0, 0, 0, 0>>, size |-> 2],
    [val |-> <<127, 255, 0, 0, 0, 0, 0, 0>>, size |-> 2],
    [val |-> <<128, 0, 0, 0, 0, 0, 0, 0>>, size |-> 2],
    [val |-> <<128, 1, 0, 0, 0, 0, 0, 0>>, size |-> 2],
    [val |-> <<255, 254, 0, 0, 0, 0, 0, 0>>, size |-> 2],
    [val |-> <<0, 0, 0, 0, 0, 0, 0, 0>>, size |-> 2],
    [val |-> <<1, 0, 0, 0, 0, 0, 0, 0>>, size |-> 2],
    [val |-> <<2, 0, 0, 0, 0, 0, 0, 0>>, size |-> 2],
    [val |-> <<3, 0, 0, 0, 0, 0, 0, 0>>, size |-> 2],
    [val |-> <<4, 0, 0, 0, 0, 0, 0, 0>>, size |-> 2],
    [val |-> <<5, 0, 0, 0, 0, 0, 0, 0>>, size |-> 2],
    [val |-> <<6, 0, 0, 0, 0, 0, 0, 0>>, size |-> 2],
    [val |-> <<7, 0, 0, 0, 0, 0, 0, 0>>, size |-> 2],
    [val |-> <<8, 0, 0, 0, 0, 0, 0, 0>>, size |-> 2],
    [val |-> <<9, 0, 0, 0, 0, 0, 0, 0>>, size |-> 2],
    [val |-> <<10, 0, 0, 0, 0, 0, 0, 0>>, size |-> 2],
    [val |-> <<11, 0, 0, 0, 0, 0, 0, 0>>, size |-> 2],
    [val |-> <<12, 0, 0, 0, 0, 0, 0, 0>>, size |-> 2],
    [val |-> <<13, 0, 0, 0, 0, 0, 0, 0>>, size |-> 2],
    [val |-> <<14, 0, 0, 0, 0, 0, 0, 0>>, size |-> 2],
    [val |-> <<15, 0, 0, 0, 0, 0, 0, 0>>, size |-> 2],
    [val |-> <<16, 0, 0, 0, 0, 0, 0, 0>>, size |-> 2],
    [val |-> <<32, 0, 0, 0, 0, 0, 0, 0>>, size |-> 2],
    [val |-> <<64, 0, 0, 0, 0, 0, 0, 0>>, size |-> 2],
    [val |-> <<126, 0, 0, 0, 0, 0, 0, 0>>, size |-> 2],
    [val |-> <<127, 0, 0, 0, 0, 0, 0, 0>>, size |-> 2],
    [val |-> <<128, 0, 0, 0, 0, 0, 0, 0>>, size |-> 2],
    [val |-> <<129, 0, 0, 0, 0, 0, 0, 0>>, size |-> 2],
    [val |-> <<192, 0, 0, 0, 0, 0, 0, 0>>, size |-> 2],
    [val |-> <<254, 0, 0, 0, 0, 0, 0, 0>>, size |-> 2],
    [val |-> <<255, 0, 0, 0, 0, 0, 0, 0>>, size |-> 2],
    [val |-> <<255, 126, 0, 0, 0, 0, 0, 0>>, size |-> 2],
    [val |-> <<255, 127, 0, 0, 0, 0, 0, 0>>, size |-> 2],
    [val |-> <<0, 128, 0, 0, 0, 0, 0, 0>>, size |-> 2],
    [val |-> <<1, 128, 0, 0, 0, 0, 0, 0>>, size |-> 2],
    [val |-> <<254, 255, 0, 0, 0, 0, 0, 0>>, size |-> 2],
    [val |-> <<0, 0, 0, 0, 0, 0, 0, 0>>, size |-> 4],
    [val |-> <<1, 1, 1, 1, 0, 0, 0, 0>>, size |-> 4],
    [val |-> <<128, 128, 128, 128, 0, 0, 0, 0>>, size |-> 4],
    [val |-> <<255, 255, 255, 255, 0, 0, 0, 0>>, size |-> 4],
    [val |-> <<0, 0, 0, 1, 0, 0, 0, 0>>, size |-> 4],
    [val |-> <<0, 0, 0, 2, 0, 0, 0, 0>>, size |-> 4],
    [val |-> <<0, 0, 0, 3, 0, 0, 0, 0>>, size |-> 4],
    [val |-> <<0, 0, 0, 4, 0, 0, 0, 0>>, size |-> 4],
    [val |-> <<0, 0, 0, 5, 0, 0, 0, 0>>, size |-> 4],
    [val |-> <<0, 0, 0, 6, 0, 0, 0, 0>>, size |-> 4],
    [val |-> <<0, 0, 0, 7, 0, 0, 0, 0>>, size |-> 4],
    [val |-> <<0, 0, 0, 8, 0, 0, 0, 0>>, size |-> 4],
    [val |-> <<0, 0, 0, 9, 0, 0, 0, 0>>, size |-> 4],
    [val |-> <<0, 0, 0, 10, 0, 0, 0, 0>>, size |-> 4],
    [val |-> <<0, 0, 0, 11, 0, 0, 0, 0>>, size |-> 4],
    [val |-> <<0, 0, 0, 12, 0, 0, 0, 0>>, size |-> 4],
    [val |-> <<0, 0, 0, 13, 0, 0, 0, 0>>, size |-> 4],
    [val |-> <<0, 0, 0, 14, 0, 0, 0, 0>>, size |-> 4],
    [val |-> <<0, 0, 0, 15, 0, 0, 0, 0>>, size |-> 4],
    [val |-> <<0, 0, 0, 16, 0, 0, 0, 0>>, size |-> 4],
    [val |-> <<0, 0, 0, 32, 0, 0, 0, 0>>, size |-> 4],
    [val |-> <<0, 0, 0, 64, 0, 0, 0, 0>>, size |-> 4],
    [val |-> <<0, 0, 0, 126, 0, 0, 0, 0>>, size |-> 4],
    [val |-> <<0, 0, 0, 127, 0, 0, 0, 0>>, size |-> 4],
    [val |-> <<0, 0, 0, 128, 0, 0, 0, 0>>, size |-> 4],
    [val |-> <<0, 0, 0, 129, 0, 0, 0, 0>>, size |-> 4],
    [val |-> <<0, 0, 0, 192, 0, 0, 0, 0>>, size |-> 4],
    [val |-> <<0, 0, 0, 254, 0, 0, 0, 0>>, size |-> 4],
    [val |-> <<0, 0, 0, 255, 0, 0, 0, 0>>, size |-> 4],
    [val |-> <<126, 255, 255, 255, 0, 0, 0, 0>>, size |-> 4],
    [val |-> <<127, 255, 255, 255, 0, 0, 0, 0>>, size |-> 4],
    [val |-> <<128, 0, 0, 0, 0, 0, 0, 0>>, size |-> 4],
    [val |-> <<128, 0, 0, 1, 0, 0, 0, 0>>, size |-> 4],
    [val |-> <<255, 255, 255, 254, 0, 0, 0, 0>>, size |-> 4],
    [val |-> <<0, 0, 0, 0, 0, 0, 0, 0>>, size |-> 4],
    [val |-> <<1, 0, 0, 0, 0, 0, 0, 0>>, size |-> 4],
    [val |-> <<2, 0, 0, 0, 0, 0, 0, 0>>, size |-> 4],
    [val |-> <<3, 0, 0, 0, 0, 0, 0, 0>>, size |-> 4],
    [val |-> <<4, 0, 0, 0, 0, 0, 0, 0>>, size |-> 4],
    [val |-> <<5, 0, 0, 0, 0, 0, 0, 0>>, size |-> 4],
    [val |-> <<6, 0, 0, 0, 0, 0, 0, 0>>, size |-> 4],
    [val |-> <<7, 0, 0, 0, 0, 0, 0, 0>>, size |-> 4],
    [val |-> <<8, 0, 0, 0, 0, 0, 0, 0>>, size |-> 4],
    [val |-> <<9, 0, 0, 0, 0, 0, 0, 0>>, size |-> 4],
    [val |-> <<10, 0, 0, 0, 0, 0, 0, 0>>, size |-> 4],
    [val |-> <<11, 0, 0, 0, 0, 0, 0, 0>>, size |-> 4],
    [val |-> <<12, 0, 0, 0, 0, 0, 0, 0>>, size |-> 4],
    [val |-> <<13, 0, 0, 0, 0, 0, 0, 0>>, size |-> 4],
    [val |-> <<14, 0, 0, 0, 0, 0, 0, 0>>, size |-> 4],
    [val |-> <<15, 0, 0, 0, 0, 0, 0, 0>>, size |-> 4],
    [val |-> <<16, 0, 0, 0, 0, 0, 0, 0>>, size |-> 4],
    [val |-> <<32, 0, 0, 0, 0, 0, 0, 0>>, size |-> 4],
    [val |-> <<64, 0, 0, 0, 0, 0, 0, 0>>, size |-> 4],
    [val |-> <<126, 0, 0, 0, 0, 0, 0, 0>>, size |-> 4],
    [val |-> <<127, 0, 0, 0, 0, 0, 0, 0>>, size |-> 4],
    [val |-> <<128, 0, 0, 0, 0, 0, 0, 0>>, size |-> 4],
    [val |-> <<129, 0, 0, 0, 0, 0, 0, 0>>, size |-> 4],
    [val |-> <<192, 0, 0, 0, 0, 0, 0, 0>>, size |-> 4],
    [val |-> <<254, 0, 0, 0, 0, 0, 0, 0>>, size |-> 4],
    [val |-> <<255, 0, 0, 0, 0, 0, 0, 0>>, size |-> 4],
    [val |-> <<255, 255, 255, 126, 0, 0, 0, 0>>, size |-> 4],
    [val |-> <<255, 255, 255, 127, 0, 0, 0, 0>>, size |-> 4],
    [val |-> <<0, 0, 0, 128, 0, 0, 0, 0>>, size |-> 4],
    [val |-> <<1, 0, 0, 128, 0, 0, 0, 0>>, size |-> 4],
    [val |-> <<254, 255, 255, 255, 0, 0, 0, 0>>, size |-> 4],
    [val |-> <<0, 0, 0, 0, 0, 0, 0, 0>>, size |-> 8],
    [val |-> <<1, 1, 1, 1, 1, 1, 1, 1>>, size |-> 8],
    [val |-> <<128, 128, 128, 128, 128, 128, 128, 128>>, size |-> 8],
    [val |-> <<255, 255, 255, 255, 255, 255, 255, 255>>, size |-> 8],
    [val |-> <<0, 0, 0, 0, 0, 0, 0, 1>>, size |-> 8],
    [val |-> <<0, 0, 0, 0, 0, 0, 0, 2>>, size |-> 8],
    [val |-> <<0, 0, 0, 0, 0, 0, 0, 3>>, size |-> 8],
    [val |-> <<0, 0, 0, 0, 0, 0, 0, 4>>, size |-> 8],
    [val |-> <<0, 0, 0, 0, 0, 0, 0, 5>>, size |-> 8],
    [val |-> <<0, 0, 0, 0, 0, 0, 0, 6>>, size |-> 8],
    [val |-> <<0, 0, 0, 0, 0, 0, 0, 7>>, size |-> 8],
    [val |-> <<0, 0, 0, 0, 0, 0, 0, 8>>, size |-> 8],
    [val |-> <<0, 0, 0, 0, 0, 0, 0, 9>>, size |-> 8],
    [val |-> <<0, 0, 0, 0, 0, 0, 0, 10>>, size |-> 8],
    [val |-> <<0, 0, 0, 0, 0, 0, 0, 11>>, size |-> 8],
    [val |-> <<0, 0, 0, 0, 0, 0, 0, 12>>, size |-> 8],
    [val |-> <<0, 0, 0, 0, 0, 0, 0, 13>>, size |-> 8],
    [val |-> <<0, 0, 0, 0, 0, 0, 0, 14>>, size |-> 8],
    [val |-> <<0, 0, 0, 0, 0, 0, 0, 15>>, size |-> 8],
    [val |-> <<0, 0, 0, 0, 0, 0, 0, 16>>, size |-> 8],
    [val |-> <<0, 0, 0, 0, 0, 0, 0, 32>>, size |-> 8],
    [val |-> <<0, 0, 0, 0, 0, 0, 0, 64>>, size |-> 8],
    [val |-> <<0, 0, 0, 0, 0, 0, 0, 126>>, size |-> 8],
    [val |-> <<0, 0, 0, 0, 0, 0, 0, 127>>, size |-> 8],
    [val |-> <<0, 0, 0, 0, 0, 0, 0, 128>>, size |-> 8],
    [val |-> <<0, 0, 0, 0, 0, 0, 0, 129>>, size |-> 8],
    [val |-> <<0, 0, 0, 0, 0, 0, 0, 192>>, size |-> 8],
    [val |-> <<0, 0, 0, 0, 0, 0, 0, 254>>, size |-> 8],
    [val |-> <<0, 0, 0, 0, 0, 0, 0, 255>>, size |-> 8],
    [val |-> <<126, 255, 255, 255, 255, 255, 255, 255>>, size |-> 8],
    [val |-> <<127, 255, 255, 255, 255, 255, 255, 255>>, size |-> 8],
    [val |-> <<128, 0, 0, 0, 0, 0, 0, 0>>, size |-> 8],
    [val |-> <<128, 0, 0, 0, 0, 0, 0, 1>>, size |-> 8],
    [val |-> <<255, 255, 255, 255, 255, 255, 255, 254>>, size |-> 8],
    [val |-> <<0, 0, 0, 0, 0, 0, 0, 0>>, size |-> 8],
    [val |-> <<1, 0, 0, 0, 0, 0, 0, 0>>, size |-> 8],
    [val |-> <<2, 0, 0, 0, 0, 0, 0, 0>>, size |-> 8],
    [val |-> <<3, 0, 0, 0, 0, 0, 0, 0>>, size |-> 8],
    [val |-> <<4, 0, 0, 0, 0, 0, 0, 0>>, size |-> 8],
    [val |-> <<5, 0, 0, 0, 0, 0, 0, 0>>, size |-> 8],
    [val |-> <<6, 0, 0, 0, 0, 0, 0, 0>>, size |-> 8],
    [val |-> <<7, 0, 0, 0, 0, 0, 0, 0>>, size |-> 8],
    [val |-> <<8, 0, 0, 0, 0, 0, 0, 0>>, size |-> 8],
    [val |-> <<9, 0, 0, 0, 0, 0, 0, 0>>, size |-> 8],
    [val |-> <<10, 0, 0, 0, 0, 0, 0, 0>>, size |-> 8],
    [val |-> <<11, 0, 0, 0, 0, 0, 0, 0>>, size |-> 8],
    [val |-> <<12, 0, 0, 0, 0, 0, 0, 0>>, size |-> 8],
    [val |-> <<13, 0, 0, 0, 0, 0, 0, 0>>, size |-> 8],
    [val |-> <<14, 0, 0, 0, 0, 0, 0, 0>>, size |-> 8],
    [val |-> <<15, 0, 0, 0, 0, 0, 0, 0>>, size |-> 8],
    [val |-> <<16, 0, 0, 0, 0, 0, 0, 0>>, size |-> 8],
    [val |-> <<32, 0, 0, 0, 0, 0, 0, 0>>, size |-> 8],
    [val |-> <<64, 0, 0, 0, 0, 0, 0, 0>>, size |-> 8],
    [val |-> <<126, 0, 0, 0, 0, 0, 0, 0>>, size |-> 8],
    [val |-> <<127, 0, 0, 0, 0, 0, 0, 0>>, size |-> 8],
    [val |-> <<128, 0, 0, 0, 0, 0, 0, 0>>, size |-> 8],
    [val |-> <<129, 0, 0, 0, 0, 0, 0, 0>>, size |-> 8],
    [val |-> <<192, 0, 0, 0, 0, 0, 0, 0>>, size |-> 8],
    [val |-> <<254, 0, 0, 0, 0, 0, 0, 0>>, size |-> 8],
    [val |-> <<255, 0, 0, 0, 0, 0, 0, 0>>, size |-> 8],
    [val |-> <<255, 255, 255, 255, 255, 255, 255, 126>>, size |-> 8],
    [val |-> <<255, 255, 255, 255, 255, 255, 255, 127>>, size |-> 8],
    [val |-> <<0, 0, 0, 0, 0, 0, 0, 128>>, size |-> 8],
    [val |-> <<1, 0, 0, 0, 0, 0, 0, 128>>, size |-> 8],
    [val |-> <<254, 255, 255, 255, 255, 255, 255, 255>>, size |-> 8]
>>

\* --------------------------------------------- external collaborators
\* One RNG call as the history records it: the function, the range asked for
\* (0, 0 when the call takes none) and the value returned, as a sequence.
Draw(fn, lo, hi, v) == [fn |-> fn, lo |-> lo, hi |-> hi, v |-> v]

\* util_rndGet(lo, hi): inclusive; no value when lo > hi.
util_rndGet(lo, hi) == lo..hi

\* The i-th byte (from 1) of a pattern repeated for len bytes.
Cycle(p, len) == [i \in 1..len |-> p[((i - 1) % Len(p)) + 1]]

\* The byte patterns the RNG oracle fills buffers with.
RndPatterns == oracle.patterns

RndPrintablePatterns == oracle.printablePatterns

\* util_rndBuf(dst, len) / util_rndBufPrintable(dst, len): the bytes written.
util_rndBuf(len) == {Cycle(p, len) : p \in RndPatterns}

util_rndBufPrintable(len) == {Cycle(p, len) : p \in RndPrintablePatterns}

\* util_rndPrintable(): one byte of [0x20, 0x7E].
util_rndPrintable == oracle.printables

\* util_rnd64(): a 64-bit value, as its eight bytes, least significant first.
util_rnd64 == oracle.rnd64

\* util_turnToPrintable on one byte.
TurnByte(b) == IF b < 32 \/ b > 126 THEN (b % 95) + 32 ELSE b

\* util_turnToPrintable(&file[off], len), on the bytes of the file it covers.
util_turnToPrintable(file, off, len) ==
    [i \in 1..Len(file) |-> IF i > off /\ i <= off + len THEN TurnByte(file[i]) ELSE file[i]]

\* What input_setSize may leave in a newly addressable byte.
UndefBytes == {0, 65}

\* input_setSize(run, sz): the logical size becomes sz; the bytes kept are
\* unchanged, the newly addressable ones hold anything.
input_setSize(r, sz) ==
    IF sz <= r.dynamicFileSz
    THEN {[r EXCEPT !.dynamicFileSz = sz, !.dynamicFile = SubSeq(r.dynamicFile, 1, sz)]}
    ELSE {[r EXCEPT !.dynamicFileSz = sz, !.dynamicFile = r.dynamicFile \o t] :
            t \in [1..(sz - r.dynamicFileSz) -> UndefBytes]}

\* ------------------------------------------------ fixed-width arithmetic
\* A w-byte integer is the sequence of its bytes, least significant first.
RECURSIVE AddCarry(_, _, _)
AddCarry(a, b, c) ==
    IF a = <<>> THEN <<>>
    ELSE LET s == Head(a) + Head(b) + c
         IN  <<s % 256>> \o AddCarry(Tail(a), Tail(b), s \div 256)

\* a + b modulo 2^(8 * Len(a))
AddW(a, b) == AddCarry(a, b, 0)

NotW(a) == [i \in 1..Len(a) |-> 255 - a[i]]

OneW(w) == [i \in 1..w |-> IF i = 1 THEN 1 ELSE 0]

\* two's complement negation
NegW(a) == AddW(NotW(a), OneW(Len(a)))

SubW(a, b) == AddW(a, NegW(b))

IsNegW(a) == a[Len(a)] >= 128

IsZeroW(a) == \A i \in 1..Len(a) : a[i] = 0

\* A small integer (|n| < 2^16) converted to w bytes (sign extension).
ToW(n, w) ==
    [i \in 1..w |-> IF i = 1 THEN n % 256
                    ELSE IF i = 2 THEN (n \div 256) % 256
                    ELSE IF n < 0 THEN 255 ELSE 0]

\* The value of an unsigned integer (Horner, most significant byte first).
RECURSIVE ValW(_)
ValW(a) == IF a = <<>> THEN 0 ELSE Head(a) + 256 * ValW(Tail(a))

\* The value of a signed integer.
SignedValW(a) == IF IsNegW(a) THEN -ValW(NegW(a)) ELSE ValW(a)

\* __builtin_bswap16/32/64
bswap(a) == [i \in 1..Len(a) |-> a[Len(a) + 1 - i]]

\* Signed addition a + b overflows the width.
SignedOverflow(a, b) ==
    /\ IsNegW(a) = IsNegW(b)
    /\ IsNegW(AddW(a, b)) # IsNegW(a)

\* Division of an unsigned integer by 10: <<quotient, remainder>>.
RECURSIVE DivMod10(_)
DivMod10(a) ==
    IF a = <<>> THEN <<(<<>>), 0>>
    ELSE LET hi == DivMod10(Tail(a))
             cur == hi[2] * 256 + Head(a)
         IN  <<(<<cur \div 10>> \o hi[1]), cur % 10>>

\* The decimal digits (ASCII) of an unsigned integer, "" for 0.
RECURSIVE DecDigits(_)
DecDigits(a) ==
    IF IsZeroW(a) THEN <<>>
    ELSE LET qr == DivMod10(a) IN DecDigits(qr[1]) \o <<48 + qr[2]>>

\* snprintf(buf, 32, "%" PRId64, v): the text, without the terminating NUL.
FormatInt64(v) ==
    IF IsZeroW(v) THEN <<48>>
    ELSE IF IsNegW(v) THEN <<45>> \o DecDigits(NegW(v))
    ELSE DecDigits(v)

\* ------------------------------------------------------ buffer primitives
\* What one operator call did: the run it leaves, its RNG calls in order, one
\* past the highest file offset it read or wrote (0: none), and whether it
\* ended in a fault.
Outcome(r, draws, acc, fault) == [run |-> r, draws |-> draws, acc |-> acc, fault |-> fault]

\* mangle_Overwrite.  maxToCopy is dynamicFileSz - off in size_t; every caller
\* passes off < dynamicFileSz, so the subtraction never wraps.
Overwrite_len(r, off, sz) ==
    LET maxToCopy == r.dynamicFileSz - off
    IN  IF sz > maxToCopy THEN maxToCopy ELSE sz

mangle_Overwrite(r, src, off, sz) ==
    LET n == Overwrite_len(r, off, sz)
    IN  [r EXCEPT !.dynamicFile =
            [i \in 1..Len(r.dynamicFile) |->
                IF i > off /\ i <= off + n THEN src[i - off] ELSE r.dynamicFile[i]]]

\* One past the last file offset mangle_Overwrite writes.
Overwrite_end(r, off, sz) ==
    IF Overwrite_len(r, off, sz) > 0 THEN off + Overwrite_len(r, off, sz) ELSE 0

\* Variant of Move_len that clamps len to dynamicFileSz - off, without the - 1.
Move_len_toEnd(r, off_from, off_to, len) ==
    IF off_from >= r.dynamicFileSz THEN -1
    ELSE IF off_to >= r.dynamicFileSz THEN -1
    ELSE LET len_from == r.dynamicFileSz - off_from
             len_to == r.dynamicFileSz - off_to
             l1 == IF len > len_from THEN len_from ELSE len
         IN  IF l1 > len_to THEN len_to ELSE l1

\* The length mangle_Move hands to memmove; -1 when it returns early.
Move_len(r, off_from, off_to, len) ==
    IF off_from >= r.dynamicFileSz THEN -1
    ELSE IF off_to >= r.dynamicFileSz THEN -1
    ELSE LET len_from == r.dynamicFileSz - off_from - 1
             len_to == r.dynamicFileSz - off_to - 1
             l1 == IF len > len_from THEN len_from ELSE len
         IN  IF l1 > len_to THEN len_to ELSE l1

mangle_Move(r, off_from, off_to, len) ==
    LET n == Move_len(r, off_from, off_to, len)
    IN  IF n <= 0 THEN r
        ELSE [r EXCEPT !.dynamicFile =
                [i \in 1..Len(r.dynamicFile) |->
                    IF i > off_to /\ i <= off_to + n
                    THEN r.dynamicFile[i - off_to + off_from]
                    ELSE r.dynamicFile[i]]]

\* One past the last file offset mangle_Move reads or writes.
Move_end(r, off_from, off_to, len) ==
    LET n == Move_len(r, off_from, off_to, len)
    IN  IF n <= 0 THEN 0 ELSE Max(off_from, off_to) + n

\* The bytes of src written at off .. off + Len(src) - 1 (inside the file).
Fill(r, off, src) ==
    [r EXCEPT !.dynamicFile =
        [i \in 1..Len(r.dynamicFile) |->
            IF i > off /\ i <= off + Len(src) THEN src[i - off] ELSE r.dynamicFile[i]]]

rndBufFor(printable, len) == IF printable THEN util_rndBufPrintable(len) ELSE util_rndBuf(len)

rndBufName(printable) == IF printable THEN "util_rndBufPrintable" ELSE "util_rndBuf"

\* Variant of mangle_Inflate that omits the clamp of len to maxFileSz - dynamicFileSz.
mangle_Inflate_noClamp(r, off, len, printable) ==
    IF r.dynamicFileSz >= global.maxFileSz
    THEN {Outcome(r, <<>>, 0, FALSE)}
    ELSE {Outcome(Fill(mangle_Move(r1, off, off + len, r1.dynamicFileSz), off, b),
                  <<Draw(rndBufName(printable), 0, 0, b)>>,
                  Max(Move_end(r1, off, off + len, r1.dynamicFileSz),
                      IF len > 0 THEN off + len ELSE 0),
                  FALSE) :
            r1 \in input_setSize(r, r.dynamicFileSz + len),
            b \in rndBufFor(printable, len)}

\* mangle_Inflate: the outcomes, over what input_setSize leaves in the new
\* bytes and over the random fill.
mangle_Inflate(r, off, len, printable) ==
    IF r.dynamicFileSz >= global.maxFileSz
    THEN {Outcome(r, <<>>, 0, FALSE)}
    ELSE LET l == IF len > global.maxFileSz - r.dynamicFileSz
                  THEN global.maxFileSz - r.dynamicFileSz ELSE len
         IN  {Outcome(Fill(mangle_Move(r1, off, off + l, r1.dynamicFileSz), off, b),
                      <<Draw(rndBufName(printable), 0, 0, b)>>,
                      Max(Move_end(r1, off, off + l, r1.dynamicFileSz),
                          IF l > 0 THEN off + l ELSE 0),
                      FALSE) :
                r1 \in input_setSize(r, r.dynamicFileSz + l),
                b \in rndBufFor(printable, l)}

\* ------------------------------------------------------------- operators
\* Each operator is the set of its outcomes on run r, over the RNG's answers.
Offsets(r) == util_rndGet(0, r.dynamicFileSz - 1)

DrawGet(lo, hi, v) == Draw("util_rndGet", lo, hi, <<v>>)

DrawOff(r, off) == DrawGet(0, r.dynamicFileSz - 1, off)

SetByte(r, off, b) == [r EXCEPT !.dynamicFile[off + 1] = b]

\* b ^ (1 << bit)
XorBit(b, bit) == IF (b \div (2 ^ bit)) % 2 = 1 THEN b - 2 ^ bit ELSE b + 2 ^ bit

\* The bit numbers the RNG oracle answers util_rndGet(0, 7) with.
BitDraws == util_rndGet(0, 7) \cap oracle.bits

mangle_Bit(r, printable) ==
    {LET flipped == SetByte(r, off, XorBit(r.dynamicFile[off + 1], bit))
     IN  Outcome(IF printable
                 THEN [flipped EXCEPT !.dynamicFile =
                          util_turnToPrintable(flipped.dynamicFile, off, 1)]
                 ELSE flipped,
                 <<DrawOff(r, off), DrawGet(0, 7, bit)>>, off + 1, FALSE) :
        off \in Offsets(r), bit \in BitDraws}

mangle_Bytes(r, printable) ==
    {Outcome(mangle_Overwrite(r, buf, off, toCopy),
             <<DrawOff(r, off), Draw(rndBufName(printable), 0, 0, buf), DrawGet(1, 8, toCopy)>>,
             Overwrite_end(r, off, toCopy), FALSE) :
        off \in Offsets(r), buf \in rndBufFor(printable, 8), toCopy \in util_rndGet(1, 8)}

\* The table indices the RNG oracle answers with.
MagicDraws == util_rndGet(0, Len(mangleMagicVals) - 1) \cap oracle.magic

\* Variant of mangle_Magic that overwrites sizeof(val) = 8 bytes instead of the entry's size.
mangle_Magic_sizeofVal(r, printable) ==
    {LET e == mangleMagicVals[choice + 1]
     IN  Outcome(mangle_Overwrite(r, e.val, off, 8),
                 <<DrawOff(r, off), DrawGet(0, Len(mangleMagicVals) - 1, choice)>>,
                 Overwrite_end(r, off, 8), FALSE) :
        off \in Offsets(r), choice \in MagicDraws}

\* mangle_Magic.  In printable mode util_turnToPrintable covers the entry's
\* full size from off, whatever the file's size: past maxFileSz it leaves the
\* file's storage, which either goes unnoticed or faults.
mangle_Magic(r, printable) ==
    UNION {LET e == mangleMagicVals[choice + 1]
               written == mangle_Overwrite(r, e.val, off, e.size)
               draws == <<DrawOff(r, off), DrawGet(0, Len(mangleMagicVals) - 1, choice)>>
           IN  IF printable
               THEN {Outcome([written EXCEPT !.dynamicFile =
                                 util_turnToPrintable(written.dynamicFile, off, e.size)],
                             draws, off + e.size, f) :
                        f \in IF off + e.size > global.maxFileSz THEN {FALSE, TRUE} ELSE {FALSE}}
               ELSE {Outcome(written, draws, Overwrite_end(r, off, e.size), FALSE)} :
        off \in Offsets(r), choice \in MagicDraws}

mangle_MemSetWithVal(r, val) ==
    UNION {{Outcome(Fill(r, off, [i \in 1..sz |-> val]),
                    <<DrawOff(r, off), DrawGet(1, r.dynamicFileSz - off, sz)>>,
                    off + sz, FALSE) :
                sz \in util_rndGet(1, r.dynamicFileSz - off)} :
        off \in Offsets(r)}

\* The values the RNG oracle answers util_rndGet(0, UINT8_MAX) with.
ByteDraws == util_rndGet(0, 255) \cap oracle.bytes

\* mangle_MemSet: the value is drawn before mangle_MemSetWithVal draws.
mangle_MemSet(r, printable) ==
    UNION {{Outcome(o.run,
                    <<IF printable THEN Draw("util_rndPrintable", 0, 0, <<val>>)
                      ELSE DrawGet(0, 255, val)>> \o o.draws,
                    o.acc, FALSE) :
                o \in mangle_MemSetWithVal(r, val)} :
        val \in IF printable THEN util_rndPrintable ELSE ByteDraws}

mangle_Random(r, printable) ==
    UNION {UNION {{Outcome(Fill(r, off, b),
                           <<DrawOff(r, off), DrawGet(1, r.dynamicFileSz - off, len),
                             Draw(rndBufName(printable), 0, 0, b)>>,
                           off + len, FALSE) :
                        b \in rndBufFor(printable, len)} :
                len \in util_rndGet(1, r.dynamicFileSz - off)} :
        off \in Offsets(r)}

\* The values util_rndGet(0, 8192) is answered with (delta + 4096).
DeltaDraws == util_rndGet(0, 8192) \cap oracle.deltas

\* The varLen bytes of the file at off.
Word(r, off, varLen) == SubSeq(r.dynamicFile, off + 1, off + varLen)

\* mangle_AddSubWithRange for one delta and one util_rnd64 answer (coin):
\* [run, draws, ub, fatal].  ub: the signed addition overflowed an int32_t or
\* int64_t, which C leaves undefined; fatal: the LOG_F branch.
AddSubCase(r, off, varLen, drawn, coin) ==
    LET delta == drawn - 4096
        d0 == DrawGet(0, 8192, drawn)
        d1 == Draw("util_rnd64", 0, 0, coin)
        val == Word(r, off, varLen)
        dw == ToW(delta, varLen)
        native == coin[1] % 2 = 1
        sum == IF native THEN AddW(val, dw) ELSE bswap(AddW(bswap(val), dw))
        over == IF native THEN SignedOverflow(val, dw) ELSE SignedOverflow(bswap(val), dw)
    IN  IF varLen = 1
        THEN [run |-> SetByte(r, off, ToU8(r.dynamicFile[off + 1] + delta)),
              draws |-> <<d0>>, ub |-> FALSE, fatal |-> FALSE]
        ELSE IF varLen \in {2, 4, 8}
        THEN [run |-> mangle_Overwrite(r, sum, off, varLen),
              draws |-> <<d0, d1>>, ub |-> (varLen # 2 /\ over), fatal |-> FALSE]
        ELSE [run |-> r, draws |-> <<d0>>, ub |-> FALSE, fatal |-> TRUE]

mangle_AddSubWithRange(r, off, varLen) ==
    {AddSubCase(r, off, varLen, drawn, coin) : drawn \in DeltaDraws, coin \in util_rnd64}

\* mangle_AddSub.  Where the addition is undefined the build either wraps or
\* traps; a trap leaves the file as it was.
mangle_AddSub(r, printable) ==
    UNION {UNION {LET varLen == IF r.dynamicFileSz - off < 2 ^ e THEN 1 ELSE 2 ^ e
                      draws == <<DrawOff(r, off), DrawGet(0, 3, e)>>
                  IN  UNION {LET done == IF printable
                                         THEN [c.run EXCEPT !.dynamicFile =
                                                 util_turnToPrintable(c.run.dynamicFile, off, varLen)]
                                         ELSE c.run
                             IN  IF c.fatal THEN {Outcome(r, draws \o c.draws, 0, TRUE)}
                                 ELSE {Outcome(done, draws \o c.draws, off + varLen, FALSE)}
                                      \cup (IF c.ub
                                            THEN {Outcome(r, draws \o c.draws, off + varLen, TRUE)}
                                            ELSE {}) :
                            c \in mangle_AddSubWithRange(r, off, varLen)} :
                e \in util_rndGet(0, 3)} :
        off \in Offsets(r)}

mangle_IncByte(r, printable) ==
    {Outcome(SetByte(r, off,
                IF printable
                THEN ToU8(CMod(r.dynamicFile[off + 1] - 32 + 1, 95) + 32)
                ELSE ToU8(r.dynamicFile[off + 1] + 1)),
             <<DrawOff(r, off)>>, off + 1, FALSE) :
        off \in Offsets(r)}

mangle_DecByte(r, printable) ==
    {Outcome(SetByte(r, off,
                IF printable
                THEN ToU8(CMod(r.dynamicFile[off + 1] - 32 + 94, 95) + 32)
                ELSE ToU8(r.dynamicFile[off + 1] - 1)),
             <<DrawOff(r, off)>>, off + 1, FALSE) :
        off \in Offsets(r)}

mangle_NegByte(r, printable) ==
    {Outcome(SetByte(r, off,
                IF printable
                THEN ToU8(94 - (r.dynamicFile[off + 1] - 32) + 32)
                ELSE 255 - r.dynamicFile[off + 1]),
             <<DrawOff(r, off)>>, off + 1, FALSE) :
        off \in Offsets(r)}

mangle_CloneByte(r, printable) ==
    {Outcome(SetByte(SetByte(r, off1, r.dynamicFile[off2 + 1]), off2, r.dynamicFile[off1 + 1]),
             <<DrawOff(r, off1), DrawOff(r, off2)>>, Max(off1, off2) + 1, FALSE) :
        off1 \in Offsets(r), off2 \in Offsets(r)}

mangle_MemMove(r, printable) ==
    {Outcome(mangle_Move(r, off_from, off_to, len),
             <<DrawOff(r, off_from), DrawOff(r, off_to), DrawGet(0, r.dynamicFileSz, len)>>,
             Move_end(r, off_from, off_to, len), FALSE) :
        off_from \in Offsets(r), off_to \in Offsets(r), len \in util_rndGet(0, r.dynamicFileSz)}

mangle_Expand(r, printable) ==
    UNION {UNION {{Outcome(o.run,
                           <<DrawOff(r, off), DrawGet(1, r.dynamicFileSz - off, len)>> \o o.draws,
                           o.acc, FALSE) :
                        o \in mangle_Inflate(r, off, len, printable)} :
                len \in util_rndGet(1, r.dynamicFileSz - off)} :
        off \in Offsets(r)}

mangle_Shrink(r, printable) ==
    IF r.dynamicFileSz <= 1
    THEN {Outcome(r, <<>>, 0, FALSE)}
    ELSE UNION {UNION {{Outcome(mangle_Move(r1, off + len, off, r1.dynamicFileSz),
                                <<DrawGet(1, r.dynamicFileSz - 1, len), DrawGet(0, len, off)>>,
                                Move_end(r1, off + len, off, r1.dynamicFileSz), FALSE) :
                            r1 \in input_setSize(r, r.dynamicFileSz - len)} :
                    off \in util_rndGet(0, len)} :
            len \in util_rndGet(1, r.dynamicFileSz - 1)}

mangle_ASCIIVal(r, printable) ==
    {LET buf == FormatInt64(v)
     IN  Outcome(mangle_Overwrite(r, buf, off, Len(buf)),
                 <<Draw("util_rnd64", 0, 0, v), DrawOff(r, off)>>,
                 Overwrite_end(r, off, Len(buf)), FALSE) :
        v \in util_rnd64, off \in Offsets(r)}

\* The dictionary entry at index choice (the TAILQ walk).
DictEntry(choice) == global.dictq[choice + 1]

mangle_DictionaryInsertNoCheck(r, printable) ==
    UNION {LET str == DictEntry(choice)
           IN  {Outcome(mangle_Overwrite(o.run, str.s, off, str.len),
                        <<DrawGet(0, global.dictionaryCnt - 1, choice), DrawOff(r, off)>>
                            \o o.draws,
                        Max(o.acc, Overwrite_end(o.run, off, str.len)), FALSE) :
                    o \in mangle_Inflate(r, off, str.len, printable)} :
        choice \in util_rndGet(0, global.dictionaryCnt - 1), off \in Offsets(r)}

\* Variant of mangle_DictionaryInsert whose fallback drops the printable flag.
mangle_DictionaryInsert_plainBit(r, printable) ==
    IF global.dictionaryCnt = 0
    THEN mangle_Bit(r, FALSE)
    ELSE mangle_DictionaryInsertNoCheck(r, printable)

mangle_DictionaryInsert(r, printable) ==
    IF global.dictionaryCnt = 0
    THEN mangle_Bit(r, printable)
    ELSE mangle_DictionaryInsertNoCheck(r, printable)

mangle_DictionaryNoCheck(r) ==
    {LET str == DictEntry(choice)
     IN  Outcome(mangle_Overwrite(r, str.s, off, str.len),
                 <<DrawOff(r, off), DrawGet(0, global.dictionaryCnt - 1, choice)>>,
                 Overwrite_end(r, off, str.len), FALSE) :
        off \in Offsets(r), choice \in util_rndGet(0, global.dictionaryCnt - 1)}

mangle_Dictionary(r, printable) ==
    IF global.dictionaryCnt = 0
    THEN mangle_Bit(r, printable)
    ELSE mangle_DictionaryNoCheck(r)

\* mangle_Resize's newsz before clamping, for the drawn v and (v = 0) the
\* drawn size n: size_t arithmetic modulo 2^64, converted to ssize_t.
Resize_newsz(oldsz, v, n) ==
    IF v = 0 THEN SignedValW(ToW(n, 8))
    ELSE IF v >= 1 /\ v <= 8 THEN SignedValW(AddW(ToW(oldsz, 8), ToW(v, 8)))
    ELSE SignedValW(SubW(AddW(ToW(oldsz, 8), ToW(8, 8)), ToW(v, 8)))

\* Variant of the clamp that omits the lower bound of 1.
Resize_clamp_noFloor(newsz) ==
    IF newsz > global.maxFileSz THEN global.maxFileSz ELSE newsz

Resize_clamp(newsz) ==
    LET low == IF newsz < 1 THEN 1 ELSE newsz
    IN  IF low > global.maxFileSz THEN global.maxFileSz ELSE low

\* mangle_Resize for the drawn v and n (n is drawn only when v = 0).
Resize_case(r, printable, v, n) ==
    LET oldsz == r.dynamicFileSz
        newsz == Resize_clamp(Resize_newsz(oldsz, v, n))
        dv == <<DrawGet(0, 16, v)>> \o (IF v = 0 THEN <<DrawGet(1, global.maxFileSz, n)>> ELSE <<>>)
    IN  IF newsz > oldsz
        THEN {Outcome(Fill(r1, oldsz, b),
                      dv \o <<Draw(rndBufName(printable), 0, 0, b)>>, newsz, FALSE) :
                r1 \in input_setSize(r, newsz), b \in rndBufFor(printable, newsz - oldsz)}
        ELSE {Outcome(r1, dv, 0, FALSE) : r1 \in input_setSize(r, newsz)}

mangle_Resize(r, printable) ==
    UNION {IF v = 0
           THEN UNION {Resize_case(r, printable, v, n) : n \in util_rndGet(1, global.maxFileSz)}
           ELSE Resize_case(r, printable, v, 0) :
        v \in util_rndGet(0, 16)}

\* ----------------------------------------------------------- the session
NoLast == [op |-> "none", run |-> [dynamicFile |-> <<>>, dynamicFileSz |-> 0, mutationsPerRun |-> 0],
           draws |-> <<>>, acc |-> 0]

Record(name, o) ==
    /\ run' = o.run
    /\ rndUsed' = TRUE
    /\ last' = IF oracle.history THEN [op |-> name, run |-> run, draws |-> o.draws, acc |-> o.acc]
               ELSE last

\* Variant of the entry test that reads the global mutationsPerRun.
Enter_testsGlobal ==
    /\ pc = "enter"
    /\ pc' = IF global.mutationsPerRun = 0 THEN "done" ELSE "resize"
    /\ UNCHANGED <<run, global, changesCnt, x, oracle, input, rndUsed, resizeCnt, last>>

\* mangle_mangleContent up to the call of mangle_Resize.
Enter ==
    /\ pc = "enter"
    /\ pc' = IF run.mutationsPerRun = 0 THEN "done" ELSE "resize"
    /\ UNCHANGED <<run, global, changesCnt, x, oracle, input, rndUsed, resizeCnt, last>>

\* The call of mangle_Resize.
Resize ==
    /\ pc = "resize"
    /\ \E o \in mangle_Resize(run, global.only_printable) : Record("mangle_Resize", o)
    /\ resizeCnt' = resizeCnt + 1
    /\ pc' = "changes"
    /\ UNCHANGED <<global, changesCnt, x, oracle, input>>

\* changesCnt = util_rndGet(1, run->global->mutate.mutationsPerRun), x = 0.
DrawChangesCnt ==
    /\ pc = "changes"
    /\ \E k \in util_rndGet(1, global.mutationsPerRun) :
        /\ changesCnt' = k
        /\ pc' = "loop"
    /\ x' = 0
    /\ UNCHANGED <<run, global, oracle, input, rndUsed, resizeCnt, last>>

\* util_rndGet(1, 0): the range is empty and the RNG oracle has no answer.
EmptyRange ==
    /\ pc = "changes"
    /\ util_rndGet(1, global.mutationsPerRun) = {}
    /\ pc' = "fatal"
    /\ UNCHANGED <<run, global, changesCnt, x, oracle, input, rndUsed, resizeCnt, last>>

\* Variant of the loop whose test is x <= changesCnt.
Mangle_oneMore(name, outcomes) ==
    /\ pc = "loop"
    /\ x <= changesCnt
    /\ \E o \in outcomes :
        /\ Record(name, o)
        /\ pc' = IF o.fault THEN "fault" ELSE IF x + 1 <= changesCnt THEN "loop" ELSE "done"
    /\ x' = x + 1
    /\ UNCHANGED <<global, changesCnt, oracle, input, resizeCnt>>

\* One turn of the loop that draws the operator `name`: its call, x++, and the
\* loop test.
Mangle(name, outcomes) ==
    /\ pc = "loop"
    /\ x < changesCnt
    /\ \E o \in outcomes :
        /\ Record(name, o)
        /\ pc' = IF o.fault THEN "fault" ELSE IF x + 1 < changesCnt THEN "loop" ELSE "done"
    /\ x' = x + 1
    /\ UNCHANGED <<global, changesCnt, oracle, input, resizeCnt>>

Bit == Mangle("mangle_Bit", mangle_Bit(run, global.only_printable))

Bytes == Mangle("mangle_Bytes", mangle_Bytes(run, global.only_printable))

Magic == Mangle("mangle_Magic", mangle_Magic(run, global.only_printable))

IncByte == Mangle("mangle_IncByte", mangle_IncByte(run, global.only_printable))

DecByte == Mangle("mangle_DecByte", mangle_DecByte(run, global.only_printable))

NegByte == Mangle("mangle_NegByte", mangle_NegByte(run, global.only_printable))

AddSub == Mangle("mangle_AddSub", mangle_AddSub(run, global.only_printable))

Dictionary == Mangle("mangle_Dictionary", mangle_Dictionary(run, global.only_printable))

DictionaryInsert ==
    Mangle("mangle_DictionaryInsert", mangle_DictionaryInsert(run, global.only_printable))

MemMove == Mangle("mangle_MemMove", mangle_MemMove(run, global.only_printable))

MemSet == Mangle("mangle_MemSet", mangle_MemSet(run, global.only_printable))

Random == Mangle("mangle_Random", mangle_Random(run, global.only_printable))

CloneByte == Mangle("mangle_CloneByte", mangle_CloneByte(run, global.only_printable))

Expand == Mangle("mangle_Expand", mangle_Expand(run, global.only_printable))

Shrink == Mangle("mangle_Shrink", mangle_Shrink(run, global.only_printable))

ASCIIVal == Mangle("mangle_ASCIIVal", mangle_ASCIIVal(run, global.only_printable))

Next ==
    \/ Enter
    \/ Resize
    \/ DrawChangesCnt
    \/ EmptyRange
    \/ Bit
    \/ Bytes
    \/ Magic
    \/ IncByte
    \/ DecByte
    \/ NegByte
    \/ AddSub
    \/ Dictionary
    \/ DictionaryInsert
    \/ MemMove
    \/ MemSet
    \/ Random
    \/ CloneByte
    \/ Expand
    \/ Shrink
    \/ ASCIIVal

\* ---------------------------------------------------------------- contexts
\* A dictionary entry (struct strings_t): its bytes and its length.
Str(s) == [s |-> s, len |-> Len(s)]

NewRun(file, m) == [dynamicFile |-> file, dynamicFileSz |-> Len(file), mutationsPerRun |-> m]

NewGlobal(maxsz, m, printable, dict) ==
    [maxFileSz |-> maxsz, mutationsPerRun |-> m, only_printable |-> printable,
     dictq |-> dict, dictionaryCnt |-> Len(dict)]

\* The narrow oracle: one or two answers per value draw (both coins of
\* util_rnd64, the lowest and the highest bit, a one-byte and an eight-byte
\* magic value); offsets, lengths and sizes are always drawn from their whole
\* range.
NarrowOracle ==
    [bits |-> {0, 7}, magic |-> {25, 159}, deltas |-> {4097},
     bytes |-> {255}, patterns |-> {<<255, 0>>}, printablePatterns |-> {<<126, 32>>},
     printables |-> {126},
     rnd64 |-> {<<0, 0, 0, 0, 0, 0, 0, 0>>, <<255, 255, 255, 255, 255, 255, 255, 255>>},
     history |-> FALSE]

\* The wide oracle: every bit, deltas -4096, -5, +1 and +4096, random bytes
\* that hold INT32_MAX, and 0, -1 and INT64_MIN as 64-bit values.
WideOracle ==
    [bits |-> 0..7, magic |-> {0, 25, 29, 90, 94, 159}, deltas |-> {0, 4091, 4097, 8192},
     bytes |-> {0, 65, 255}, patterns |-> {<<255, 255, 255, 127>>, <<66, 129>>},
     printablePatterns |-> {<<32, 126>>, <<88, 89>>}, printables |-> {32, 65, 126},
     rnd64 |-> {<<0, 0, 0, 0, 0, 0, 0, 0>>, <<255, 255, 255, 255, 255, 255, 255, 255>>,
                <<0, 0, 0, 0, 0, 0, 0, 128>>},
     history |-> TRUE]

\* The wide oracle answering with every index of the magic table.
TableOracle == [WideOracle EXCEPT !.magic = 0..(Len(mangleMagicVals) - 1)]

Start ==
    /\ pc = "enter"
    /\ changesCnt = 0
    /\ x = 0
    /\ input = run
    /\ rndUsed = FALSE
    /\ resizeCnt = 0
    /\ last = NoLast

\* Sessions of up to MaxMutations stacked operators on the files of
\* 1 .. MaxFileSz printable bytes or as many non-printable ones, with no
\* dictionary or one with a non-printable entry.  The run's mutationsPerRun is
\* only ever tested against 0.
Init ==
    /\ oracle = NarrowOracle
    /\ \E n \in 1..MaxFileSz, m \in 0..1, b \in {65, 200} :
        run = NewRun([i \in 1..n |-> b], m)
    /\ \E m \in 0..MaxMutations, printable \in BOOLEAN, dict \in {<<>>, <<Str(<<0, 200>>)>>} :
        global = NewGlobal(MaxFileSz, m, printable, dict)
    /\ Start

Spec == Init /\ [][Next]_vars

\* Resize and one operator, with the history kept, on a two-byte integer and
\* on five distinct letters, with no dictionary or one of two entries.
InitWide ==
    /\ oracle = WideOracle
    /\ \E file \in {<<1, 0>>, <<65, 66, 67, 68, 69>>} : run = NewRun(file, 1)
    /\ \E m \in 0..1, printable \in BOOLEAN, dict \in {<<>>, <<Str(<<70, 79, 79>>), Str(<<7>>)>>} :
        global = NewGlobal(WideFileSz, m, printable, dict)
    /\ Start

SpecWide == InitWide /\ [][Next]_vars

\* Resize and one operator on a file at the size limit, of zeros or of
\* distinct bytes that no table entry holds at the same place, every entry of
\* the magic table being drawn.
InitTable ==
    /\ oracle = TableOracle
    /\ \E base \in {0, 200} :
        run = NewRun([i \in 1..TableFileSz |-> IF base = 0 THEN 0 ELSE base + i], 1)
    /\ \E m \in 0..1, printable \in BOOLEAN :
        global = NewGlobal(TableFileSz, m, printable, <<>>)
    /\ Start

SpecTable == InitTable /\ [][Next]_vars

\* ------------------------------------------------------------------ claims
\* The value of the i-th RNG call of the last operator.
DrawVal(i) == last.draws[i].v[1]

\* The byte at C offset i of a run's file.
At(r, i) == r.dynamicFile[i + 1]

\* C1: in every state of a session (after mangle_Resize, after each operator
\* and after any stack of them) 1 <= dynamicFileSz <= maxFileSz.
C1_SizeWithinBounds ==
    /\ 1 <= run.dynamicFileSz
    /\ run.dynamicFileSz <= global.maxFileSz

\* C1 witness: a session that stacked two operators and ended at the size
\* limit, having started below it.
C1_Witness ==
    /\ pc = "done"
    /\ x >= 2
    /\ input.dynamicFileSz < global.maxFileSz
    /\ run.dynamicFileSz = global.maxFileSz

\* C2: the last operator (or mangle_Resize) touched no file offset at or past
\* dynamicFileSz, the size taken after its own resize.
C2_NoAccessPastSize == last.acc <= run.dynamicFileSz

\* C3: with only_printable set and a printable input file, the file that
\* mangle_mangleContent returns is printable.
C3_PrintableKept ==
    (pc = "done" /\ global.only_printable /\ AllPrintable(input.dynamicFile))
        => AllPrintable(run.dynamicFile)

\* C4: with run->mutationsPerRun = 0, mangle_mangleContent returns with the
\* run as it received it, having called neither mangle_Resize nor an operator
\* nor the RNG.
C4_ZeroMutationsIsIdentity ==
    (pc = "done" /\ run.mutationsPerRun = 0)
        => /\ run = input
           /\ ~rndUsed
           /\ resizeCnt = 0
           /\ x = 0
           /\ last = NoLast

\* C4 witness: a session that returned at once although the global
\* configuration asks for mutations.
C4_Witness ==
    /\ pc = "done"
    /\ run.mutationsPerRun = 0
    /\ global.mutationsPerRun > 0

\* C5: a session with run->mutationsPerRun >= 1 calls mangle_Resize exactly
\* once and before any operator, then exactly k operators with
\* 1 <= k <= run->mutationsPerRun, the value tested against 0, and returns.
C5_StackedWithinMutationsPerRun ==
    /\ resizeCnt <= 1
    /\ (pc \in {"changes", "loop"} \/ x > 0) => resizeCnt = 1
    /\ (pc = "done" /\ run.mutationsPerRun >= 1)
        => /\ resizeCnt = 1
           /\ x = changesCnt
           /\ 1 <= x
           /\ x <= run.mutationsPerRun

\* A session has ended: it returned, an operator faulted, or the RNG oracle
\* was asked for a value of an empty range.
Ended == pc \in {"done", "fault", "fatal"}

\* A session that has not ended can take its next step: the entry test, the
\* call of mangle_Resize, the draw of changesCnt (or its empty range), or a turn
\* of the loop, whose operator has an outcome.
CanStep ==
    \/ pc = "enter"
    \/ pc = "resize" /\ mangle_Resize(run, global.only_printable) # {}
    \/ pc = "changes"
    \/ pc = "loop" /\ x < changesCnt /\ mangle_Bit(run, global.only_printable) # {}

\* C5 as amended: mangle_Resize is called at most once, before changesCnt is
\* drawn and before any operator; changesCnt is drawn from
\* 1 .. run->global->mutate.mutationsPerRun, the global setting and not the
\* run's value tested at entry; the loop never calls more than changesCnt
\* operators and takes its next turn while fewer were called; a session that
\* returns with run->mutationsPerRun >= 1 has called exactly changesCnt.
C5_StackedWithinGlobalMutationsPerRun ==
    /\ resizeCnt <= 1
    /\ (pc \in {"changes", "loop"} \/ x > 0) => resizeCnt = 1
    /\ x <= changesCnt
    /\ pc = "loop" => /\ 1 <= changesCnt
                      /\ changesCnt <= global.mutationsPerRun
                      /\ x < changesCnt
    /\ (pc = "done" /\ run.mutationsPerRun >= 1)
        => /\ resizeCnt = 1
           /\ x = changesCnt
           /\ 1 <= x
           /\ x <= global.mutationsPerRun
    /\ Ended \/ CanStep

\* C5 witness: a run with mutationsPerRun = 1 whose session stacked two
\* operators and returned.
C5_Witness ==
    /\ pc = "done"
    /\ run.mutationsPerRun = 1
    /\ resizeCnt = 1
    /\ x = 2

\* C6: mangle_Shrink on a file of one byte changes nothing and draws nothing;
\* otherwise, with the drawn len and off, the size drops by len, the bytes
\* before off stay, and the bytes from off + len on slide left to off.
C6_ShrinkSlidesTail ==
    last.op = "mangle_Shrink"
        => IF last.run.dynamicFileSz <= 1
           THEN run = last.run /\ last.draws = <<>>
           ELSE LET len == DrawVal(1)
                    off == DrawVal(2)
                IN  /\ len \in 1..(last.run.dynamicFileSz - 1)
                    /\ off \in 0..len
                    /\ run.dynamicFileSz = last.run.dynamicFileSz - len
                    /\ \A i \in 0..(run.dynamicFileSz - 1) :
                        IF i < off THEN At(run, i) = At(last.run, i)
                        ELSE At(run, i) = At(last.run, i + len)

\* C7: with an empty dictionary mangle_Dictionary and mangle_DictionaryInsert
\* leave what mangle_Bit leaves on the same RNG answers: the same RNG calls in
\* the same order, the same file and the same size.
C7_EmptyDictionaryIsBit ==
    (last.op \in {"mangle_Dictionary", "mangle_DictionaryInsert"} /\ global.dictionaryCnt = 0)
        => /\ Len(last.draws) = 2
           /\ last.draws[1] = DrawGet(0, last.run.dynamicFileSz - 1, DrawVal(1))
           /\ last.draws[2] = DrawGet(0, 7, DrawVal(2))
           /\ \E o \in mangle_Bit(last.run, global.only_printable) :
                /\ o.draws = last.draws
                /\ o.run = run

\* C7 witness: mangle_DictionaryInsert ran in printable mode without a
\* dictionary and changed the file.
C7_Witness ==
    /\ last.op = "mangle_DictionaryInsert"
    /\ global.dictionaryCnt = 0
    /\ global.only_printable
    /\ run # last.run

\* C8: in non-printable mode mangle_Magic, with the drawn off and table entry
\* e, writes the first min(e.size, size - off) bytes of e.val at off and leaves
\* the size and every other byte.
C8_MagicWritesEntry ==
    (last.op = "mangle_Magic" /\ ~global.only_printable)
        => LET off == DrawVal(1)
               e == mangleMagicVals[DrawVal(2) + 1]
               n == Min(e.size, last.run.dynamicFileSz - off)
           IN  /\ off \in 0..(last.run.dynamicFileSz - 1)
               /\ run.dynamicFileSz = last.run.dynamicFileSz
               /\ Len(run.dynamicFile) = run.dynamicFileSz
               /\ \A i \in 0..(run.dynamicFileSz - 1) :
                    IF i >= off /\ i < off + n THEN At(run, i) = e.val[i - off + 1]
                    ELSE At(run, i) = At(last.run, i)

\* C8 witness: eight zero bytes, off = 2 and the entry 00 00 00 01 of size 4
\* give 00 00 00 00 00 01 00 00.
C8_Witness ==
    /\ last.op = "mangle_Magic"
    /\ ~global.only_printable
    /\ last.run.dynamicFile = <<0, 0, 0, 0, 0, 0, 0, 0>>
    /\ DrawVal(1) = 2
    /\ mangleMagicVals[DrawVal(2) + 1] = [val |-> <<0, 0, 0, 1, 0, 0, 0, 0>>, size |-> 4]
    /\ run.dynamicFile = <<0, 0, 0, 0, 0, 1, 0, 0>>

\* C9: mangle_Resize with the drawn v sets the size to n clamped to
\* [1, maxFileSz], n being the drawn size (v = 0), oldSize + v (v in 1..8) or
\* oldSize + 8 - v (v in 9..16); the bytes below both sizes stay, and on growth
\* exactly the bytes [oldSize, newSize) are the random bytes drawn, printable
\* ones in printable mode.
C9_ResizeSetsClampedSize ==
    last.op = "mangle_Resize"
        => LET old == last.run.dynamicFileSz
               v == DrawVal(1)
               n == IF v = 0 THEN DrawVal(2)
                    ELSE IF v <= 8 THEN old + v ELSE old + 8 - v
               new == IF n < 1 THEN 1 ELSE IF n > global.maxFileSz THEN global.maxFileSz ELSE n
               calls == IF v = 0 THEN 2 ELSE 1
           IN  /\ v \in 0..16
               /\ v = 0 => DrawVal(2) \in 1..global.maxFileSz
               /\ run.dynamicFileSz = new
               /\ Len(run.dynamicFile) = new
               /\ \A i \in 0..(Min(old, new) - 1) : At(run, i) = At(last.run, i)
               /\ IF new > old
                  THEN /\ Len(last.draws) = calls + 1
                       /\ last.draws[calls + 1].fn = rndBufName(global.only_printable)
                       /\ Len(last.draws[calls + 1].v) = new - old
                       /\ \A i \in old..(new - 1) :
                            /\ At(run, i) = last.draws[calls + 1].v[i - old + 1]
                            /\ global.only_printable => IsPrintable(At(run, i))
                  ELSE Len(last.draws) = calls

\* C9 witness: a file of two bytes and v = 16 (a delta of -8) give size 1.
C9_Witness ==
    /\ last.op = "mangle_Resize"
    /\ last.run.dynamicFileSz = 2
    /\ DrawVal(1) = 16
    /\ run.dynamicFileSz = 1

\* C10: in non-printable mode mangle_AddSub, with the drawn off, exponent,
\* delta and coin, replaces the varLen bytes at off (varLen forced to 1 when
\* fewer than varLen bytes remain) by the sum modulo 2^(8 * varLen) of delta
\* and of those bytes read least significant first (native) or most significant
\* first (foreign), written back in the same order; every other byte and the
\* size stay, and the call ends neither in the fatal branch nor in a fault.
C10_AddSubWraps ==
    (last.op = "mangle_AddSub" /\ ~global.only_printable)
        => LET old == last.run
               off == DrawVal(1)
               width == 2 ^ DrawVal(2)
               varLen == IF old.dynamicFileSz - off < width THEN 1 ELSE width
               delta == DrawVal(3) - 4096
               native == varLen = 1 \/ DrawVal(4) % 2 = 1
               word == SubSeq(old.dynamicFile, off + 1, off + varLen)
               sum == IF native THEN AddW(word, ToW(delta, varLen))
                      ELSE bswap(AddW(bswap(word), ToW(delta, varLen)))
           IN  /\ pc # "fault"
               /\ off \in 0..(old.dynamicFileSz - 1)
               /\ varLen \in {1, 2, 4, 8}
               /\ delta \in (-4096)..4096
               /\ Len(last.draws) = IF varLen = 1 THEN 3 ELSE 4
               /\ run.dynamicFileSz = old.dynamicFileSz
               /\ Len(run.dynamicFile) = old.dynamicFileSz
               /\ \A i \in 0..(old.dynamicFileSz - 1) :
                    IF i >= off /\ i < off + varLen THEN At(run, i) = sum[i - off + 1]
                    ELSE At(run, i) = At(old, i)

\* The 1-byte magic values, in table order.
C11_OneByte ==
    <<0, 1, 2, 3, 4, 5, 6, 7, 8, 9, 10, 11, 12, 13, 14, 15, 16, 32, 64,
      126, 127, 128, 129, 192, 254, 255>>

\* The number of table entries of size n.
C11_SizeCount(n) ==
    Cardinality({i \in 1..Len(mangleMagicVals) : mangleMagicVals[i].size = n})

C11_Rev(s) == [k \in 1..Len(s) |-> s[Len(s) + 1 - k]]

\* w copies of b; m as a w-byte big-endian value.
C11_Rep(b, w) == [k \in 1..w |-> b]

C11_BE(m, w) == [k \in 1..w |-> IF k = w THEN m ELSE 0]

\* The five boundary values of width w, big-endian: 7E FF.., 7F FF.., 80 00..,
\* 80 00..01, FF..FE.
C11_Extras(w) ==
    << [k \in 1..w |-> IF k = 1 THEN 126 ELSE 255],
       [k \in 1..w |-> IF k = 1 THEN 127 ELSE 255],
       [k \in 1..w |-> IF k = 1 THEN 128 ELSE 0],
       [k \in 1..w |-> IF k = 1 THEN 128 ELSE IF k = w THEN 1 ELSE 0],
       [k \in 1..w |-> IF k = w THEN 254 ELSE 255] >>

C11_Entry(s) == [val |-> [k \in 1..8 |-> IF k <= Len(s) THEN s[k] ELSE 0], size |-> Len(s)]

\* The 4 + 30 + 31 entries of width w: native, big-endian (no 00..00), little-endian.
C11_Width(w) ==
    [k \in 1..4 |-> C11_Entry(C11_Rep((<<0, 1, 128, 255>>)[k], w))]
        \o [k \in 1..25 |-> C11_Entry(C11_BE(C11_OneByte[k + 1], w))]
        \o [k \in 1..5 |-> C11_Entry(C11_Extras(w)[k])]
        \o [k \in 1..26 |-> C11_Entry(C11_Rev(C11_BE(C11_OneByte[k], w)))]
        \o [k \in 1..5 |-> C11_Entry(C11_Rev(C11_Extras(w)[k]))]

\* C11: the magic table holds exactly 220 entries, each of size 1, 2, 4 or 8:
\* 26 of size 1, 4 + 27 + 31 of size 2, 4 + 31 + 31 of size 4 and 4 + 31 + 31
\* of size 8; mangle_Magic draws its index from 0 .. |table| - 1.
C11_TableHas220Entries ==
    /\ Len(mangleMagicVals) = 220
    /\ \A i \in 1..Len(mangleMagicVals) : mangleMagicVals[i].size \in {1, 2, 4, 8}
    /\ C11_SizeCount(1) = 26
    /\ C11_SizeCount(2) = 4 + 27 + 31
    /\ C11_SizeCount(4) = 4 + 31 + 31
    /\ C11_SizeCount(8) = 4 + 31 + 31
    /\ last.op = "mangle_Magic"
        => /\ last.draws[2].lo = 0
           /\ last.draws[2].hi = Len(mangleMagicVals) - 1
           /\ DrawVal(2) \in 0..(Len(mangleMagicVals) - 1)

\* The table as the source lays it out: 221 entries, 26 of size 1 and
\* 4 + 30 + 31 of each of the sizes 2, 4 and 8, group by group.
C11_TableLayout ==
    /\ Len(mangleMagicVals) = 221
    /\ \A i \in 1..Len(mangleMagicVals) : mangleMagicVals[i].size \in {1, 2, 4, 8}
    /\ C11_SizeCount(1) = 26
    /\ C11_SizeCount(2) = 4 + 30 + 31
    /\ C11_SizeCount(4) = 4 + 30 + 31
    /\ C11_SizeCount(8) = 4 + 30 + 31
    /\ mangleMagicVals =
        [k \in 1..26 |-> C11_Entry(<<C11_OneByte[k]>>)]
            \o C11_Width(2) \o C11_Width(4) \o C11_Width(8)

\* C11 as amended: the magic table holds exactly 221 entries, each of size 1,
\* 2, 4 or 8: the 26 one-byte values, then for each width 2, 4 and 8 the 4
\* native values, 30 big-endian ones (00..m for every one-byte value m but 00,
\* and five boundary values) and 31 little-endian ones (m..00 for every
\* one-byte value m, and the five boundary values reversed); mangle_Magic
\* draws its index from 0 .. 220.
C11_TableHas221Entries ==
    /\ C11_TableLayout
    /\ last.op = "mangle_Magic"
        => /\ last.draws[2].lo = 0
           /\ last.draws[2].hi = 220
           /\ DrawVal(2) \in 0..220

\* C11 witness: mangle_Magic drew the last index, 220, the 8-byte entry
\* FE FF FF FF FF FF FF FF, and wrote it over the whole file.
C11_Witness ==
    /\ last.op = "mangle_Magic"
    /\ ~global.only_printable
    /\ DrawVal(1) = 0
    /\ DrawVal(2) = 220
    /\ last.run.dynamicFileSz = 8
    /\ run.dynamicFile = <<254, 255, 255, 255, 255, 255, 255, 255>>

\* What the claimed Move(offFrom, offTo, len) makes of the bytes old (a file
\* of Len(old) bytes): old itself when an offset is at or past the size, else
\* old with n = min(len, size - offFrom - 1, size - offTo - 1) bytes copied
\* from offFrom to offTo as if through a temporary.
C12_Moved(old, offFrom, offTo, len) ==
    LET size == Len(old)
        n == Min(len, Min(size - offFrom - 1, size - offTo - 1))
    IN  IF offFrom >= size \/ offTo >= size THEN old
        ELSE [k \in 1..size |->
                IF k - 1 >= offTo /\ k - 1 < offTo + n THEN old[k - offTo + offFrom]
                ELSE old[k]]

\* C12: mangle_Move changes nothing when an offset is at or past the size and
\* otherwise copies min(len, size - off_from - 1, size - off_to - 1) bytes
\* from off_from to off_to, leaving every other byte; so no mangle_Move reads
\* or writes the byte at size - 1, be it issued by mangle_MemMove (on the
\* file as it is), by mangle_Shrink (on the file cut to size - len) or by
\* mangle_Inflate under mangle_Expand (on the file grown by the clamped len,
\* whose last byte stays what input_setSize left there).
C12_MoveSparesFinalByte ==
    /\ last.op = "mangle_MemMove"
        => LET old == last.run
               size == old.dynamicFileSz
           IN  /\ run.dynamicFileSz = size
               /\ run.dynamicFile =
                    C12_Moved(old.dynamicFile, DrawVal(1), DrawVal(2), DrawVal(3))
               /\ At(run, size - 1) = At(old, size - 1)
               /\ last.acc <= size - 1
    /\ (last.op = "mangle_Shrink" /\ last.run.dynamicFileSz > 1)
        => LET old == last.run
               len == DrawVal(1)
               off == DrawVal(2)
               size == old.dynamicFileSz - len
               cut == SubSeq(old.dynamicFile, 1, size)
           IN  /\ run.dynamicFileSz = size
               /\ run.dynamicFile = C12_Moved(cut, off + len, off, size)
               /\ At(run, size - 1) = At(old, size - 1)
               /\ last.acc <= size - 1
    /\ (last.op = "mangle_Expand" /\ last.run.dynamicFileSz < global.maxFileSz)
        => LET old == last.run
               off == DrawVal(1)
               L == Min(DrawVal(2), global.maxFileSz - old.dynamicFileSz)
               size == old.dynamicFileSz + L
               fill == last.draws[3].v
           IN  /\ run.dynamicFileSz = size
               /\ Len(run.dynamicFile) = size
               /\ Len(fill) = L
               /\ At(run, size - 1) \in UndefBytes
               /\ \E grown \in input_setSize(old, size) :
                    LET moved == C12_Moved(grown.dynamicFile, off, off + L, size)
                    IN  run.dynamicFile =
                            [k \in 1..size |->
                                IF k - 1 >= off /\ k - 1 < off + L THEN fill[k - off]
                                ELSE moved[k]]

\* C12 witness: mangle_MemMove on 41 42 43 44 45 with off_from = 0, off_to = 1
\* and len = 5 copies three bytes over their own source and leaves 45.
C12_Witness ==
    /\ last.op = "mangle_MemMove"
    /\ last.run.dynamicFile = <<65, 66, 67, 68, 69>>
    /\ DrawVal(1) = 0
    /\ DrawVal(2) = 1
    /\ DrawVal(3) = 5
    /\ run.dynamicFile = <<65, 65, 66, 67, 69>>

\* The claimed effect of mangle_Inflate(off, len) from the run old to the run
\* new: nothing at maxFileSz; else the size grows by L = min(len, maxFileSz -
\* size), the bytes before off stay and every byte from off on is found L
\* places to the right.
C13_Inserted(old, new, off, len) ==
    IF old.dynamicFileSz >= global.maxFileSz
    THEN new = old
    ELSE LET L == Min(len, global.maxFileSz - old.dynamicFileSz)
         IN  /\ new.dynamicFileSz = old.dynamicFileSz + L
             /\ Len(new.dynamicFile) = new.dynamicFileSz
             /\ \A i \in 0..(off - 1) : At(new, i) = At(old, i)
             /\ \A i \in off..(old.dynamicFileSz - 1) : At(new, i + L) = At(old, i)

\* C13: mangle_Inflate as mangle_Expand and mangle_DictionaryInsert use it is
\* a pure insertion: at maxFileSz nothing changes; else the size grows by the
\* clamped len, the bytes before off stay and every original byte from off on
\* reappears shifted right by the clamped len.
C13_InflateIsPureInsertion ==
    /\ last.op = "mangle_Expand"
        => C13_Inserted(last.run, run, DrawVal(1), DrawVal(2))
    /\ (last.op = "mangle_DictionaryInsert" /\ global.dictionaryCnt > 0)
        => C13_Inserted(last.run, run, DrawVal(2), DictEntry(DrawVal(1)).len)

====
